---- MODULE Spec2Model ----
(***************************************************************************)
(* State-machine model of server_full_final.py: the in-memory collections  *)
(* products / orders / history, their JSON files, and the request handlers *)
(* add_order, update_order, chat and reports.                               *)
(*                                                                         *)
(* Text is modelled as a sequence of characters (one-character strings).   *)
(* A non-ASCII character is written by its code point, "U+09F3"; a fixed   *)
(* piece of HTML markup of a reply is written as one element.              *)
(***************************************************************************)
EXTENDS Integers, Sequences, FiniteSets, TLC

(***************************************************************************)
(* Bounds of the model (not program constants).                            *)
(***************************************************************************)
MaxStock == 1        \* initial stock of the first product ranges over 0..MaxStock
MaxChats == 1        \* chat requests that reach the log, per behaviour
MaxOrders == 2       \* purchases started while orders is shorter than this, in SpecCrash
MaxReportOrders == 3 \* length of the orders collections given to reports in SpecRep
NumThreads == 2      \* concurrent add_order requests in SpecConc

(***************************************************************************)
(* Program constants.                                                      *)
(***************************************************************************)
TAX_PCT == 7         \* TAX_RATE = 0.07, in hundredths
LOW_STOCK == 3
HISTORY_KEEP == 400  \* history[:] = history[-400:]
ORDER_BASE == 1000   \* f"ORDER{1000+len(orders)+1}"

(***************************************************************************)
(* str methods used by the handlers.                                       *)
(***************************************************************************)
LowerLetters ==
  <<"a","b","c","d","e","f","g","h","i","j","k","l","m",
    "n","o","p","q","r","s","t","u","v","w","x","y","z">>
UpperLetters ==
  <<"A","B","C","D","E","F","G","H","I","J","K","L","M",
    "N","O","P","Q","R","S","T","U","V","W","X","Y","Z">>
Digits == <<"0","1","2","3","4","5","6","7","8","9">>
Whitespace == {" ", "\t", "\n"}

MinOf(S) == CHOOSE x \in S : \A y \in S : x <= y
MaxOf(S) == CHOOSE x \in S : \A y \in S : y <= x

upperChar(c) ==
  IF \E i \in 1..26 : LowerLetters[i] = c
    THEN UpperLetters[CHOOSE i \in 1..26 : LowerLetters[i] = c]
    ELSE c
lowerChar(c) ==
  IF \E i \in 1..26 : UpperLetters[i] = c
    THEN LowerLetters[CHOOSE i \in 1..26 : UpperLetters[i] = c]
    ELSE c
upper(s) == [i \in 1..Len(s) |-> upperChar(s[i])]
lower(s) == [i \in 1..Len(s) |-> lowerChar(s[i])]

\* s.strip(): drop leading and trailing whitespace
strip(s) ==
  LET keep == {i \in 1..Len(s) : s[i] \notin Whitespace}
  IN  IF keep = {} THEN <<>> ELSE SubSeq(s, MinOf(keep), MaxOf(keep))

\* sub in s
contains(s, sub) ==
  \E i \in 0..(Len(s) - Len(sub)) : SubSeq(s, i + 1, i + Len(sub)) = sub

\* s.startswith(p)
startswith(s, p) == Len(p) <= Len(s) /\ SubSeq(s, 1, Len(p)) = p

\* s.split(): the maximal runs of non-whitespace characters, in order
RECURSIVE splitFrom(_, _, _)
splitFrom(s, i, cur) ==
  IF i > Len(s)
    THEN IF cur = <<>> THEN <<>> ELSE <<cur>>
    ELSE IF s[i] \in Whitespace
      THEN (IF cur = <<>> THEN <<>> ELSE <<cur>>) \o splitFrom(s, i + 1, <<>>)
      ELSE splitFrom(s, i + 1, Append(cur, s[i]))
split(s) == splitFrom(s, 1, <<>>)

\* str(n) for an integer n >= 0
RECURSIVE str(_)
str(n) == IF n < 10 THEN <<Digits[n + 1]>> ELSE Append(str(n \div 10), Digits[(n % 10) + 1])

\* n rendered with at least w digits, zero padded (isoformat fields)
RECURSIVE zfill(_, _)
zfill(s, w) == IF Len(s) >= w THEN s ELSE zfill(<<"0">> \o s, w)

\* next((x for x in seq if P(x)), None) as an index: 0 stands for None
FirstIndex(seq, P(_)) ==
  LET hits == {i \in 1..Len(seq) : P(seq[i])}
  IN  IF hits = {} THEN 0 ELSE MinOf(hits)

(***************************************************************************)
(* parse_price_any, the order total, the order id, timestamps.             *)
(***************************************************************************)
IsDigit(c) == \E i \in 1..10 : Digits[i] = c
DigitValue(c) == (CHOOSE i \in 1..10 : Digits[i] = c) - 1

\* re.sub(r"[^\d]", "", str(p))
RECURSIVE onlyDigits(_)
onlyDigits(s) ==
  IF s = <<>> THEN <<>>
  ELSE (IF IsDigit(Head(s)) THEN <<Head(s)>> ELSE <<>>) \o onlyDigits(Tail(s))

\* int(s) for a string of digits
RECURSIVE int(_)
int(s) == IF s = <<>> THEN 0 ELSE 10 * int(SubSeq(s, 1, Len(s) - 1)) + DigitValue(s[Len(s)])

parse_price_any(p) ==
  LET s == onlyDigits(p) IN IF s = <<>> THEN 0 ELSE int(s)

\* round(num / den) the way Python rounds: to nearest, a tie to the even integer
round(num, den) ==
  LET q == num \div den
      r == num % den
  IN  IF 2 * r < den THEN q
      ELSE IF 2 * r > den THEN q + 1
      ELSE IF q % 2 = 0 THEN q ELSE q + 1

\* 1 + TAX_RATE is a binary64 float: the double nearest 1.07, which is
\* 4818851601286431 / 2^52 = 1.07 + TAX_EXCESS_NUM / (TAX_EXCESS_DEN * 2^52)
TAX_EXCESS_NUM == 7
TAX_EXCESS_DEN == 25

RECURSIVE Pow2(_)
Pow2(e) == IF e = 0 THEN 1 ELSE 2 * Pow2(e - 1)

\* the binary exponent of a float of integer part q >= 1
RECURSIVE exponent(_)
exponent(q) == IF q <= 1 THEN 0 ELSE 1 + exponent(q \div 2)

\* unit * (1 + TAX_RATE) is rounded to 53 significant bits.  The exact product
\* is unit * 1.07 plus the excess unit * 7 / (25 * 2^52); when unit * 1.07 lies
\* half-way between two integers the float is that half-way value if the
\* excess is below half a unit in the last place, 2^(e - 53), and the next
\* float above it otherwise (the two are never equal: 7 divides no power of 2)
product_above_half(unit, q) ==
  2 * TAX_EXCESS_NUM * unit > TAX_EXCESS_DEN * Pow2(exponent(q))

\* (a variant that cuts the fraction off, as int() does)
order_total_truncated(unit) == (unit * (100 + TAX_PCT)) \div 100

\* round(unit * (1 + TAX_RATE)): away from a half-way point the float is
\* within 2^-30 of unit * 1.07 and rounds as the exact value does; at one,
\* round() sees either the half-way value, and takes the even neighbour, or a
\* float above it, and takes the upper neighbour
order_total(unit) ==
  LET num == unit * (100 + TAX_PCT)
      q   == num \div 100
  IN  IF num % 100 = 50 /\ product_above_half(unit, q) THEN q + 1
      ELSE round(num, 100)

ORDER == <<"O", "R", "D", "E", "R">>

\* (a variant that forgets the + 1)
order_id_from_len(n) == ORDER \o str(ORDER_BASE + n)

\* f"ORDER{1000+len(orders)+1}"
order_id_for(n) == ORDER \o str(ORDER_BASE + n + 1)

\* date.isoformat(): YYYY-MM-DD
isodate(t) == zfill(str(t.y), 4) \o <<"-">> \o zfill(str(t.m), 2) \o <<"-">> \o zfill(str(t.d), 2)

\* datetime.isoformat(timespec="seconds"): YYYY-MM-DDTHH:MM:SS
isoformat(t) ==
  isodate(t) \o <<"T">> \o zfill(str(t.hh), 2) \o <<":">> \o zfill(str(t.mi), 2)
             \o <<":">> \o zfill(str(t.ss), 2)

(***************************************************************************)
(* Literals of the program.                                                *)
(***************************************************************************)
GUEST == <<"g", "u", "e", "s", "t">>
UNKNOWN == <<"U", "n", "k", "n", "o", "w", "n">>
ST_CONFIRMED == <<"U+2705", " ", "C", "o", "n", "f", "i", "r", "m", "e", "d">>
ST_DELIVERED == <<"U+2705", " ", "D", "e", "l", "i", "v", "e", "r", "e", "d">>
ST_CANCELLED == <<"U+274C", " ", "C", "a", "n", "c", "e", "l", "l", "e", "d">>
MSG_PRODUCT_NOT_FOUND == <<"Product not found">>
MSG_NO_STOCK == <<"U+09B8", "U+09CD", "U+099F", "U+0995", " ", "U+09A8", "U+09C7", "U+0987">>
MSG_NOT_FOUND == <<"Not found">>
MSG_ORDER_NOT_FOUND == <<"order id not found">>      \* the reply of line 406
MSG_WRITE_SOMETHING == <<"write something">>         \* the reply of line 398
MSG_DEFAULT_REPLY == <<"ready to help">>             \* the reply of lines 424, 426
LIST_LATIN == <<"l", "i", "s", "t">>
LIST_BN == <<"U+09B2", "U+09BF", "U+09B8", "U+09CD", "U+099F">>
KI_KI_BN == <<"U+0995", "U+09BF", " ", "U+0995", "U+09BF">>

NAME_HP == <<"H", "P", " ", "P", "a", "v", "i", "l", "i", "o", "n", " ", "1", "5">>
NAME_REDMI == <<"R", "e", "d", "m", "i", " ", "N", "o", "t", "e", " ", "1", "3">>
CAT_LAPTOP == <<"U+09B2", "U+09CD", "U+09AF", "U+09BE", "U+09AA", "U+099F", "U+09AA">>
CAT_MOBILE == <<"U+09AE", "U+09CB", "U+09AC", "U+09BE", "U+0987", "U+09B2">>
PRICE_HP == <<"U+09F3", "6", "5", ",", "0", "0", "0">>
PRICE_REDMI == <<"U+09F3", "2", "3", ",", "9", "9", "9">>

NAME_DELL == <<"D", "e", "l", "l", " ", "I", "n", "s", "p", "i", "r", "o", "n", " ", "1", "5">>
NAME_LOGITECH == <<"L", "o", "g", "i", "t", "e", "c", "h", " ", "M", "3", "3", "1", " ", "S", "i", "l", "e", "n", "t">>
CAT_ACCESSORIES == <<"U+0985", "U+09CD", "U+09AF", "U+09BE", "U+0995", "U+09CD", "U+09B8", "U+09C7", "U+09B8", "U+09B0", "U+09BF", "U+099C">>
PRICE_LOGITECH == <<"U+09F3", "1", ",", "7", "9", "9">>

\* lines 125-130: the catalog written when products.json gives no product
SeedCatalog ==
  << [category |-> CAT_LAPTOP, name |-> NAME_HP, price |-> PRICE_HP, stock |-> 5],
     [category |-> CAT_LAPTOP, name |-> NAME_DELL, price |-> PRICE_HP, stock |-> 9],
     [category |-> CAT_MOBILE, name |-> NAME_REDMI, price |-> PRICE_REDMI, stock |-> 8],
     [category |-> CAT_ACCESSORIES, name |-> NAME_LOGITECH, price |-> PRICE_LOGITECH, stock |-> 15] >>

\* the first entries of the default catalog, with the stocks left open
DefaultProducts(s1, s2) ==
  << [category |-> CAT_LAPTOP, name |-> NAME_HP, price |-> PRICE_HP, stock |-> s1],
     [category |-> CAT_MOBILE, name |-> NAME_REDMI, price |-> PRICE_REDMI, stock |-> s2] >>

(***************************************************************************)
(* Request inputs.                                                         *)
(***************************************************************************)
ProductNameInputs ==
  { <<" ">> \o NAME_HP \o <<" ">>,
    lower(NAME_HP),
    NAME_REDMI }
UserInputs == { <<>>, GUEST \o <<" ">> }
OrderIdInputs ==
  { order_id_for(0),
    lower(order_id_for(0)),
    <<" ">> \o order_id_for(1) \o <<"\n">> }
StatusInputs == { <<" ">> \o ST_CANCELLED }

\* the wall clock: the instants at which a request may run, in order
Clock ==
  << [y |-> 2025, m |-> 12, d |-> 31, hh |-> 23, mi |-> 59, ss |-> 59],
     [y |-> 2026, m |-> 1,  d |-> 5,  hh |-> 9,  mi |-> 30, ss |-> 7] >>

Threads == 1..NumThreads

(***************************************************************************)
(* State.                                                                  *)
(***************************************************************************)
VARIABLES
  products,      \* the catalog list (line 120)
  orders,        \* the orders list (line 121)
  history,       \* the chat log (line 122)
  diskProducts,  \* products.json
  diskOrders,    \* orders.json
  diskHistory,   \* chat_history.json
  invoices,      \* the order ids that have a PDF in invoices/
  now,           \* index into Clock: what datetime.now() returns
  chats,         \* chat requests logged so far (bounds the run)
  resp,          \* the request just handled and its response, until it is delivered
  pc,            \* SpecConc: each thread's position in add_order
  loc            \* SpecConc: each thread's local variables

mem == <<products, orders, history>>
disk == <<diskProducts, diskOrders, diskHistory, invoices>>
thr == <<pc, loc>>
vars == <<products, orders, history, diskProducts, diskOrders, diskHistory,
          invoices, now, chats, resp, pc, loc>>

NoReport == [today |-> 0, month |-> 0, year |-> 0, labels |-> <<>>, counts |-> <<>>]

\* a handled request: op and its inputs (for reports, the date it ran on), the
\* HTTP status, the JSON "status",
\* the text of the body (order id, message or reply), the invoice path, the report
Response(op, a, b, http, status, text, invoice, report) ==
  [op |-> op, a |-> a, b |-> b, http |-> http, status |-> status,
   text |-> text, invoice |-> invoice, report |-> report]

\* no response on its way to a client
NoResponse == Response("none", <<>>, <<>>, 0, "", <<>>, <<>>, NoReport)

\* the locals of an add_order that has not started
NoOrder ==
  [order_id |-> <<>>, user |-> <<>>, product |-> <<>>, qty |-> 0, unit_price |-> 0,
   discount |-> 0, tax |-> 0, total |-> 0, status |-> <<>>, created_at |-> <<>>,
   time |-> <<>>, category |-> <<>>]
NoThread == [name |-> <<>>, user |-> <<>>, prod |-> 0, stock |-> 0, n |-> 0,
             rec |-> NoOrder, http |-> 0]

\* a log left by earlier runs: n entries, the i-th carrying i as its message
OldHistory(n) ==
  [i \in 1..n |-> [time |-> isoformat(Clock[1]), user |-> GUEST,
                   msg |-> str(i), bot |-> MSG_DEFAULT_REPLY]]

\* the state after start-up with the three files holding prods, ords and h
Started(prods, ords, h) ==
  /\ products = prods
  /\ orders = ords
  /\ history = h
  /\ diskProducts = products
  /\ diskOrders = orders
  /\ diskHistory = history
  /\ invoices = {}
  /\ now = 1
  /\ chats = 0
  /\ resp = NoResponse
  /\ pc = [t \in Threads |-> "idle"]
  /\ loc = [t \in Threads |-> NoThread]

\* a catalog of one or two products, no order yet, an empty chat log
Init ==
  \E n \in 1..2, s1 \in 0..MaxStock :
    Started(SubSeq(DefaultProducts(s1, 1), 1, n), <<>>, <<>>)

\* time passes between requests
Tick ==
  /\ now < Len(Clock)
  /\ now' = now + 1
  /\ UNCHANGED <<mem, disk, chats, resp, thr>>

(***************************************************************************)
(* add_order (lines 434-462).                                              *)
(***************************************************************************)
\* (d.get("product_name") or "").strip()
name_of(product_name) == strip(product_name)
\* (d.get("user") or "guest").strip()
user_of(user) == strip(IF user = <<>> THEN GUEST ELSE user)

\* (a variant that compares the names ignoring case)
find_product_ignoring_case(prods, name) ==
  FirstIndex(prods, LAMBDA p : lower(p.name) = lower(name))

\* next((p for p in products if p["name"]==name), None): index, 0 for None
find_product(prods, name) == FirstIndex(prods, LAMBDA p : p.name = name)

\* (a variant that lets the last-but-one check through: stock < 0)
out_of_stock_below_zero(stock) == stock < 0

\* the stock check of lines 443-445: TRUE when the request is rejected
out_of_stock(stock) == stock <= 0

\* (a variant that writes back the stock it read)
not_decremented(stock) == stock

\* prod["stock"] = stock - 1
decremented(stock) == stock - 1

\* lines 449-458: the record of the new order
new_order(prod, name, user, n, t) ==
  LET unit == parse_price_any(prod.price)
  IN  [order_id |-> order_id_for(n), user |-> user, product |-> name, qty |-> 1,
       unit_price |-> unit, discount |-> 0, tax |-> TAX_PCT,
       total |-> order_total(unit), status |-> ST_CONFIRMED,
       created_at |-> isoformat(t), time |-> isoformat(t),
       category |-> prod.category]

\* (a variant that numbers the record when it is stored, from the length then)
append_order_renumbering(ords, rec) ==
  Append(ords, [rec EXCEPT !.order_id = order_id_for(Len(ords))])

\* orders.append(rec)
append_order(ords, rec) == Append(ords, rec)

\* f"invoices/{order['order_id']}.pdf"
invoice_path(oid) == <<"invoices/">> \o oid \o <<".pdf">>

\* The whole handler, run with no other request in between.  invoiceOk is
\* whether gen_invoice can write the PDF; when it raises, the handler is left
\* through the exception and the client gets a 500.  send_email changes no
\* state and swallows its own failures: it is left out.
add_order(product_name, user_in, invoiceOk) ==
  LET name == name_of(product_name)
      user == user_of(user_in)
      i    == find_product(products, name)
  IN
  IF i = 0 THEN
    /\ resp' = Response("add_order", product_name, <<>>, 404, "fail",
                        MSG_PRODUCT_NOT_FOUND, <<>>, NoReport)
    /\ UNCHANGED <<mem, disk, now, chats, thr>>
  ELSE IF out_of_stock(products[i].stock) THEN
    /\ resp' = Response("add_order", product_name, <<>>, 400, "fail",
                        MSG_NO_STOCK, <<>>, NoReport)
    /\ UNCHANGED <<mem, disk, now, chats, thr>>
  ELSE
    LET rec == new_order(products[i], name, user, Len(orders), Clock[now])
    IN
    /\ products' = [products EXCEPT ![i].stock = decremented(products[i].stock)]
    /\ diskProducts' = products'
    /\ orders' = append_order(orders, rec)
    /\ diskOrders' = orders'
    /\ IF invoiceOk
         THEN /\ invoices' = invoices \cup {rec.order_id}
              /\ resp' = Response("add_order", product_name, <<>>, 200, "success",
                                  rec.order_id, invoice_path(rec.order_id), NoReport)
         ELSE /\ invoices' = invoices
              /\ resp' = Response("add_order", product_name, <<>>, 500, "error",
                                  <<>>, <<>>, NoReport)
    /\ UNCHANGED <<history, diskHistory, now, chats, thr>>

AddOrder ==
  /\ resp = NoResponse
  /\ \E product_name \in ProductNameInputs, user_in \in UserInputs, invoiceOk \in BOOLEAN :
       add_order(product_name, user_in, invoiceOk)

(***************************************************************************)
(* update_order (lines 464-474).                                           *)
(***************************************************************************)
\* (a variant that compares the ids ignoring case)
same_order_id_ignoring_case(stored, oid) == upper(stored) = upper(oid)

\* o["order_id"] == oid
same_order_id(stored, oid) == stored = oid

\* (a variant whose loop does not stop at the first match and tests nothing)
with_status_everywhere(ords, i, st) == [j \in DOMAIN ords |-> [ords[j] EXCEPT !.status = st]]

\* o["status"] = st, on the order found
with_status(ords, i, st) == [ords EXCEPT ![i].status = st]

update_order(order_id, status) ==
  LET oid == strip(order_id)
      st  == strip(status)
      i   == FirstIndex(orders, LAMBDA o : same_order_id(o.order_id, oid))
  IN
  IF i = 0 THEN
    /\ resp' = Response("update_order", order_id, status, 404, "fail",
                        MSG_NOT_FOUND, <<>>, NoReport)
    /\ UNCHANGED <<mem, disk, now, chats, thr>>
  ELSE
    /\ orders' = with_status(orders, i, st)
    /\ diskOrders' = orders'
    /\ resp' = Response("update_order", order_id, status, 200, "success",
                        <<>>, <<>>, NoReport)
    /\ UNCHANGED <<products, history, diskProducts, diskHistory, invoices, now, chats, thr>>

UpdateOrder ==
  /\ resp = NoResponse
  /\ \E order_id \in OrderIdInputs, status \in StatusInputs : update_order(order_id, status)

(***************************************************************************)
(* chat (lines 390-431).                                                   *)
(***************************************************************************)
\* line 409: one <li> of the listing
list_item(p) ==
  <<"<li>">> \o p.category \o <<" - <b>">> \o p.name \o <<"</b> (">> \o p.price
            \o <<", stock: ">> \o str(p.stock) \o <<")</li>">>

RECURSIVE list_items(_)
list_items(prods) ==
  IF prods = <<>> THEN <<>> ELSE list_item(Head(prods)) \o list_items(Tail(prods))

\* line 410
listing_reply(prods) ==
  <<"<b>product list:</b><ul class='m-0'>">>
    \o (IF list_items(prods) = <<>> THEN <<"<li>empty</li>">> ELSE list_items(prods))
    \o <<"</ul>">>

\* lines 415-420 (no product of the model has an image)
card_reply(p) ==
  <<"<div class='product-card'>", "<b>">> \o p.name \o <<"</b>">>
    \o (IF p.stock <= LOW_STOCK THEN <<" <span class='badge badge-low ms-1'>Low</span>">> ELSE <<>>)
    \o <<"<br>", "price: ">> \o p.price \o <<" - stock: ">> \o str(p.stock)
    \o <<" in stock<br>", "<button onclick=placeOrder('">> \o p.name \o <<"')>Buy Now</button></div>">>

\* lines 403-406: the reply of the order-status branch
order_status_reply(ords, up) ==
  LET tokens == split(up)
      t      == FirstIndex(tokens, LAMBDA tok : startswith(tok, ORDER))
      oid    == IF t = 0 THEN <<>> ELSE tokens[t]
      i      == FirstIndex(ords, LAMBDA o : upper(o.order_id) = upper(oid))
  IN  IF i = 0 THEN MSG_ORDER_NOT_FOUND ELSE ords[i].status

\* line 408: the listing trigger words
wants_list(msg) ==
  contains(msg, LIST_BN) \/ contains(lower(msg), LIST_LATIN) \/ contains(msg, KI_KI_BN)

\* line 413: the fuzzy catalog lookup, as an index (0 for None)
find_by_name_or_category(prods, msg) ==
  FirstIndex(prods, LAMBDA p : contains(lower(msg), lower(p.name))
                               \/ contains(lower(msg), lower(p.category)))

\* (a variant that tests the listing trigger before the order id)
chat_reply_list_first(ords, prods, msg, llm) ==
  IF wants_list(msg) THEN listing_reply(prods)
  ELSE IF contains(upper(msg), ORDER) THEN order_status_reply(ords, upper(msg))
  ELSE LET i == find_by_name_or_category(prods, msg)
       IN  IF i # 0 THEN card_reply(prods[i]) ELSE llm

\* lines 400-426: the reply to a non-empty message.  llm is what the text
\* generation endpoint answers (the default reply when the call fails).
chat_reply(ords, prods, msg, llm) ==
  IF contains(upper(msg), ORDER) THEN order_status_reply(ords, upper(msg))
  ELSE IF wants_list(msg) THEN listing_reply(prods)
  ELSE LET i == find_by_name_or_category(prods, msg)
       IN  IF i # 0 THEN card_reply(prods[i]) ELSE llm

\* (a variant that keeps the oldest entries: history[:400])
first_entries(h) == IF Len(h) <= HISTORY_KEEP THEN h ELSE SubSeq(h, 1, HISTORY_KEEP)

\* history[-400:]
last_entries(h) == IF Len(h) <= HISTORY_KEEP THEN h ELSE SubSeq(h, Len(h) - HISTORY_KEEP + 1, Len(h))

\* TRUE when line 397 returns before the log is touched
is_blank(msg) == msg = <<>>

chat(message, user_in, llm) ==
  LET msg  == strip(message)
      user == user_of(user_in)
  IN
  IF is_blank(msg) THEN
    /\ resp' = Response("chat", message, <<>>, 200, "", MSG_WRITE_SOMETHING, <<>>, NoReport)
    /\ UNCHANGED <<mem, disk, now, chats, thr>>
  ELSE
    LET reply == chat_reply(orders, products, msg, llm)
    IN
    /\ chats < MaxChats
    /\ chats' = chats + 1
    /\ history' = last_entries(Append(history,
                     [time |-> isoformat(Clock[now]), user |-> user, msg |-> msg, bot |-> reply]))
    /\ diskHistory' = history'
    /\ resp' = Response("chat", message, <<>>, 200, "", reply, <<>>, NoReport)
    /\ UNCHANGED <<products, orders, diskProducts, diskOrders, invoices, now, thr>>

ChatInputs ==
  { <<" ", "\t">>,
    order_id_for(0),
    LIST_LATIN \o <<" ">> \o NAME_HP \o <<" ">> \o lower(order_id_for(1)),
    <<"L", "i", "s", "t">>,
    lower(NAME_HP),
    <<"h", "i">> }
LlmReplies == { MSG_DEFAULT_REPLY, <<"generated text">> }

Chat ==
  /\ resp = NoResponse
  /\ \E message \in ChatInputs, user_in \in UserInputs, llm \in LlmReplies :
       chat(message, user_in, llm)

(***************************************************************************)
(* reports (lines 477-503).                                                *)
(***************************************************************************)
\* o.get("created_at") or o.get("time") or ""
timestamp(o) == IF o.created_at # <<>> THEN o.created_at ELSE o.time

\* cat_count[cat] = cat_count.get(cat, 0) + 1, on a dict kept in insertion order
count_category(acc, cat) ==
  LET k == FirstIndex(acc.labels, LAMBDA l : l = cat)
  IN  IF k = 0
        THEN [acc EXCEPT !.labels = Append(@, cat), !.counts = Append(@, 1)]
        ELSE [acc EXCEPT !.counts[k] = @ + 1]

\* (a variant with elif: an order feeds only the narrowest bucket it matches)
report_step_elif(acc, o, today_str) ==
  LET t == timestamp(o)
      a == IF startswith(t, today_str) THEN [acc EXCEPT !.today = @ + o.total]
           ELSE IF startswith(t, SubSeq(today_str, 1, 7)) THEN [acc EXCEPT !.month = @ + o.total]
           ELSE IF startswith(t, SubSeq(today_str, 1, 4)) THEN [acc EXCEPT !.year = @ + o.total]
           ELSE acc
  IN  count_category(a, o.category)

\* lines 487-493: one turn of the loop
report_step(acc, o, today_str) ==
  LET t == timestamp(o)
      a == [acc EXCEPT
              !.today = IF startswith(t, today_str) THEN @ + o.total ELSE @,
              !.month = IF startswith(t, SubSeq(today_str, 1, 7)) THEN @ + o.total ELSE @,
              !.year  = IF startswith(t, SubSeq(today_str, 1, 4)) THEN @ + o.total ELSE @]
  IN  count_category(a, o.category)

RECURSIVE report_loop(_, _, _)
report_loop(acc, ords, today_str) ==
  IF ords = <<>> THEN acc
  ELSE report_loop(report_step(acc, Head(ords), today_str), Tail(ords), today_str)

report(ords, today_str) == report_loop(NoReport, ords, today_str)

Reports ==
  /\ resp = NoResponse
  /\ resp' = Response("reports", isodate(Clock[now]), <<>>, 200, "", <<>>, <<>>,
                      report(orders, isodate(Clock[now])))
  /\ UNCHANGED <<mem, disk, now, chats, thr>>

\* return jsonify(...): the response leaves, the server takes the next request
Deliver ==
  /\ resp # NoResponse
  /\ resp' = NoResponse
  /\ UNCHANGED <<mem, disk, now, chats, thr>>

Next == AddOrder \/ UpdateOrder \/ Chat \/ Reports \/ Deliver
Spec == Init /\ [][Next]_vars

(***************************************************************************)
(* Purchases from catalogs with any price text: products.json as the shop  *)
(* may have written it (str(p) is taken of the price, a number included).  *)
(***************************************************************************)
PriceInputs ==
  { PRICE_HP,                                  \* 65000 -> 69550
    PRICE_REDMI,                               \* 23999 -> 25678.93 -> 25679
    <<"f", "r", "e", "e">>,                    \* no digit -> 0
    <<"1", "7", "9", "9", ".", "5">>,          \* a number with a fraction -> 17995
    <<"U+09F3", "1", "5", "0">>,               \* 160.5 as a float -> 160
    <<"T", "k", " ", "9", "5", "0", "/", "-">>,  \* 1016.5 plus an ulp as a float -> 1017
    <<"0", "0", "7">> }                        \* 7 -> 7.49 -> 7

InitPrice ==
  \E p1, p2 \in PriceInputs :
    Started(<< [DefaultProducts(1, 1)[1] EXCEPT !.price = p1],
               [DefaultProducts(1, 1)[2] EXCEPT !.price = p2] >>, <<>>, <<>>)
NextPrice == AddOrder \/ UpdateOrder \/ Deliver
SpecPrice == InitPrice /\ [][NextPrice]_vars

(***************************************************************************)
(* The chat log near its limit: the scenario catalog (one product, stock   *)
(* 1) and a log of 399 or 400 entries left by earlier runs.                *)
(***************************************************************************)
InitLog ==
  \E h \in {OldHistory(HISTORY_KEEP - 1), OldHistory(HISTORY_KEEP)} :
    Started(SubSeq(DefaultProducts(1, 1), 1, 1), <<>>, h)
NextLog == AddOrder \/ UpdateOrder \/ Chat \/ Deliver
SpecLog == InitLog /\ [][NextLog]_vars

(***************************************************************************)
(* reports over any orders collection: orders.json as earlier runs (of     *)
(* this or an older version of the program) may have left it.              *)
(***************************************************************************)
\* an order as add_order stores it, for a product of the given category and total
SampleOrder(k, created_at, time, category, total) ==
  [order_id |-> order_id_for(k), user |-> GUEST, product |-> NAME_HP, qty |-> 1,
   unit_price |-> total, discount |-> 0, tax |-> TAX_PCT, total |-> total,
   status |-> ST_CONFIRMED, created_at |-> created_at, time |-> time,
   category |-> category]

SampleOrders ==
  { SampleOrder(0, isoformat(Clock[1]), isoformat(Clock[1]), CAT_MOBILE, 25679),
    SampleOrder(1, isoformat(Clock[2]), isoformat(Clock[2]), CAT_LAPTOP, 69550),
    \* the same month as Clock[2], another day
    SampleOrder(2, isoformat([Clock[2] EXCEPT !.d = 4]), isoformat([Clock[2] EXCEPT !.d = 4]),
                CAT_MOBILE, 25679),
    \* the same year as Clock[2], another month
    SampleOrder(3, isoformat([Clock[2] EXCEPT !.m = 11]), isoformat([Clock[2] EXCEPT !.m = 11]),
                CAT_LAPTOP, 69550),
    \* a record without created_at and category, dated by its time field
    SampleOrder(4, <<>>, isoformat(Clock[2]), UNKNOWN, 1925) }

RECURSIVE SeqsUpTo(_, _)
SeqsUpTo(S, n) ==
  IF n = 0 THEN {<<>>}
  ELSE SeqsUpTo(S, n - 1) \cup {Append(q, x) : q \in {r \in SeqsUpTo(S, n - 1) : Len(r) = n - 1}, x \in S}

InitRep ==
  \E ords \in SeqsUpTo(SampleOrders, MaxReportOrders) :
    Started(DefaultProducts(1, 1), ords, <<>>)
NextRep == Reports \/ Deliver \/ Tick
SpecRep == InitRep /\ [][NextRep]_vars

(***************************************************************************)
(* add_order run by several threads (app.run serves each request in its    *)
(* own thread and nothing locks the collections).  A step is one statement *)
(* of the handler, or a run of statements that touch only its locals.      *)
(***************************************************************************)
\* lines 436-441
AoStart(t) ==
  /\ pc[t] = "idle"
  /\ \E product_name \in ProductNameInputs, user_in \in UserInputs :
       LET name == name_of(product_name)
           i    == find_product(products, name)
       IN  /\ loc' = [loc EXCEPT ![t].name = name, ![t].user = user_of(user_in),
                                 ![t].prod = i, ![t].http = IF i = 0 THEN 404 ELSE 0]
           /\ pc' = [pc EXCEPT ![t] = IF i = 0 THEN "done" ELSE "check"]
  /\ UNCHANGED <<mem, disk, now, chats, resp>>

\* lines 443-445
AoCheck(t) ==
  /\ pc[t] = "check"
  /\ LET stock == products[loc[t].prod].stock
     IN  /\ loc' = [loc EXCEPT ![t].stock = stock,
                               ![t].http = IF out_of_stock(stock) THEN 400 ELSE 0]
         /\ pc' = [pc EXCEPT ![t] = IF out_of_stock(stock) THEN "done" ELSE "decrement"]
  /\ UNCHANGED <<mem, disk, now, chats, resp>>

\* line 446
AoDecrement(t) ==
  /\ pc[t] = "decrement"
  /\ products' = [products EXCEPT ![loc[t].prod].stock = decremented(loc[t].stock)]
  /\ pc' = [pc EXCEPT ![t] = "save_products"]
  /\ UNCHANGED <<orders, history, disk, now, chats, resp, loc>>

\* (a variant without line 447: the catalog is not saved before the order)
AoSkipSaveProducts(t) ==
  /\ pc[t] = "save_products"
  /\ pc' = [pc EXCEPT ![t] = "make"]
  /\ UNCHANGED <<mem, disk, now, chats, resp, loc>>

\* line 447
AoSaveProducts(t) ==
  /\ pc[t] = "save_products"
  /\ diskProducts' = products
  /\ pc' = [pc EXCEPT ![t] = "make"]
  /\ UNCHANGED <<mem, diskOrders, diskHistory, invoices, now, chats, resp, loc>>

\* lines 449-458
AoMake(t) ==
  /\ pc[t] = "make"
  /\ loc' = [loc EXCEPT ![t].n = Len(orders),
                        ![t].rec = new_order(products[loc[t].prod], loc[t].name,
                                             loc[t].user, Len(orders), Clock[now])]
  /\ pc' = [pc EXCEPT ![t] = "append"]
  /\ UNCHANGED <<mem, disk, now, chats, resp>>

\* line 459, orders.append(rec)
AoAppend(t) ==
  /\ pc[t] = "append"
  /\ orders' = append_order(orders, loc[t].rec)
  /\ pc' = [pc EXCEPT ![t] = "save_orders"]
  /\ UNCHANGED <<products, history, disk, now, chats, resp, loc>>

\* line 459, save_json(ORDERS_FILE, orders)
AoSaveOrders(t) ==
  /\ pc[t] = "save_orders"
  /\ diskOrders' = orders
  /\ pc' = [pc EXCEPT ![t] = "invoice"]
  /\ UNCHANGED <<mem, diskProducts, diskHistory, invoices, now, chats, resp, loc>>

\* lines 460-462
AoInvoice(t) ==
  /\ pc[t] = "invoice"
  /\ \E invoiceOk \in BOOLEAN :
       /\ invoices' = IF invoiceOk THEN invoices \cup {loc[t].rec.order_id} ELSE invoices
       /\ loc' = [loc EXCEPT ![t].http = IF invoiceOk THEN 200 ELSE 500]
  /\ pc' = [pc EXCEPT ![t] = "done"]
  /\ UNCHANGED <<mem, diskProducts, diskOrders, diskHistory, now, chats, resp>>

NextConc ==
  \E t \in Threads :
    \/ AoStart(t) \/ AoCheck(t) \/ AoDecrement(t) \/ AoSaveProducts(t)
    \/ AoMake(t) \/ AoAppend(t) \/ AoSaveOrders(t) \/ AoInvoice(t)
SpecConc == Init /\ [][NextConc]_vars

(***************************************************************************)
(* One add_order at a time, statement by statement, in a process that can  *)
(* die at any point and be started again.  save_json (lines 67-69) opens   *)
(* the file for writing, which empties it, and then dumps the data: a      *)
(* process that dies inside the call leaves the old file (not yet opened)  *)
(* or an empty or partial one, which load_json (lines 58-65) cannot parse. *)
(***************************************************************************)
Worker == 1

\* the content of a file that json.load rejects
Truncated == << [truncated |-> TRUE] >>
Readable(file) == file # Truncated

\* load_json(path, []): the parsed content, the default for a file it rejects
load_json(file) == IF Readable(file) THEN file ELSE <<>>

\* the catalog the first start finds in products.json
FirstCatalog == DefaultProducts(MaxStock, 1)

\* the response was returned: the thread is free for the next request
AoReturn(t) ==
  /\ pc[t] = "done"
  /\ pc' = [pc EXCEPT ![t] = "idle"]
  /\ loc' = [loc EXCEPT ![t] = NoThread]
  /\ UNCHANGED <<mem, disk, now, chats, resp>>

\* the process dies; only a file in the middle of save_json can be damaged
Crash ==
  /\ pc[Worker] # "crashed"
  /\ \E damaged \in BOOLEAN :
       /\ diskProducts' = IF damaged /\ pc[Worker] = "save_products" THEN Truncated ELSE diskProducts
       /\ diskOrders' = IF damaged /\ pc[Worker] = "save_orders" THEN Truncated ELSE diskOrders
  /\ pc' = [pc EXCEPT ![Worker] = "crashed"]
  /\ loc' = [loc EXCEPT ![Worker] = NoThread]
  /\ UNCHANGED <<mem, diskHistory, invoices, now, chats, resp>>

\* lines 120-131, at a later instant: the collections are read back, and a
\* catalog that comes back empty is replaced by the default one and saved
Restart ==
  /\ pc[Worker] = "crashed"
  /\ now < Len(Clock)
  /\ now' = now + 1
  /\ LET loaded == load_json(diskProducts)
     IN  /\ products' = IF loaded = <<>> THEN SeedCatalog ELSE loaded
         /\ diskProducts' = IF loaded = <<>> THEN SeedCatalog ELSE diskProducts
  /\ orders' = load_json(diskOrders)
  /\ history' = load_json(diskHistory)
  /\ pc' = [pc EXCEPT ![Worker] = "idle"]
  /\ UNCHANGED <<diskOrders, diskHistory, invoices, chats, resp, loc>>

InitCrash == Started(FirstCatalog, <<>>, <<>>)
NextCrash ==
  \/ (Len(orders) < MaxOrders /\ AoStart(Worker))
  \/ AoCheck(Worker) \/ AoDecrement(Worker) \/ AoSaveProducts(Worker)
  \/ AoMake(Worker) \/ AoAppend(Worker) \/ AoSaveOrders(Worker) \/ AoInvoice(Worker)
  \/ AoReturn(Worker)
  \/ Crash
  \/ Restart
SpecCrash == InitCrash /\ [][NextCrash]_vars

(***************************************************************************)
(* Properties of requests handled one at a time (Spec).  In the step of a   *)
(* handler resp' is the request handled and its response, and the unprimed *)
(* variables are the state the request found.                              *)
(***************************************************************************)

\* C1: a successful add_order takes exactly one off the stock of the product
\* it names (the first one of that name), leaves the other products alone, and
\* is never granted when that stock is 0 or lower.
C1_StockDecrement ==
  [][ (resp'.op = "add_order" /\ resp'.status = "success") =>
        \E i \in DOMAIN products :
          /\ products[i].name = strip(resp'.a)
          /\ \A j \in 1..(i - 1) : products[j].name # strip(resp'.a)
          /\ products[i].stock > 0
          /\ products' = [products EXCEPT ![i].stock = products[i].stock - 1] ]_vars

\* a purchase was granted and the next one, at stock 0, refused
C1_Witness ==
  /\ resp.op = "add_order" /\ resp.http = 400 /\ strip(resp.a) = NAME_HP
  /\ Len(products) = 2 /\ products[1].stock = 0
  /\ Len(orders) = 1 /\ orders[1].product = NAME_HP /\ orders[1].order_id \in invoices

\* C2 as claimed: the k-th successful add_order gets ORDER<1000+k>.  The ids
\* in invoices are those returned by the successful requests so far.
C2_Original ==
  (resp.op = "add_order" /\ resp.status = "success") =>
     resp.text = ORDER \o str(ORDER_BASE + Cardinality(invoices))

\* C2 as amended: the k-th record of orders has the id ORDER<1000+k>, whether
\* or not the request that stored it ended in success; ids are pairwise
\* different and grow with the position; a successful add_order returns the
\* id of the record it stored.
C2_IdsFollowRecords ==
  /\ \A i \in DOMAIN orders : orders[i].order_id = ORDER \o str(ORDER_BASE + i)
  /\ \A i, j \in DOMAIN orders :
       i < j => /\ orders[i].order_id # orders[j].order_id
                /\ int(SubSeq(orders[i].order_id, 6, Len(orders[i].order_id)))
                     < int(SubSeq(orders[j].order_id, 6, Len(orders[j].order_id)))
  /\ (resp.op = "add_order" /\ resp.status = "success") =>
       /\ orders # <<>>
       /\ resp.text = orders[Len(orders)].order_id

\* the first add_order stored ORDER1001 and failed on its invoice; the second
\* one is the first to succeed and gets ORDER1002
C2_Witness ==
  /\ Len(orders) = 2
  /\ resp.op = "add_order" /\ resp.status = "success"
  /\ resp.text = ORDER \o <<"1", "0", "0", "2">>
  /\ invoices = {resp.text}

\* C5: add_order answers 404 exactly when no product has the trimmed name
\* (compared as it is, case included) and 400 when the product found has a
\* stock of 0 or lower; a rejected request changes no collection and no file.
C5_RejectedChangesNothing ==
  [][ resp'.op = "add_order" =>
        LET name == strip(resp'.a)
            hits == {i \in DOMAIN products : products[i].name = name}
        IN  /\ (hits = {}) <=> (resp'.http = 404)
            /\ (hits # {} /\ products[MinOf(hits)].stock <= 0) <=> (resp'.http = 400)
            /\ resp'.http = 404 => resp'.text = MSG_PRODUCT_NOT_FOUND
            /\ resp'.http = 400 => resp'.text = MSG_NO_STOCK
            /\ resp'.http \in {400, 404} =>
                 /\ resp'.status = "fail"
                 /\ UNCHANGED <<products, orders, history, diskProducts, diskOrders,
                                diskHistory, invoices>> ]_vars

\* the scenario: one product of stock 1, bought once (ORDER1001, stock 0), and
\* the second purchase refused with the stock still 0 and one order
C5_Witness ==
  /\ Len(products) = 1 /\ products[1].stock = 0
  /\ Len(orders) = 1 /\ orders[1].order_id = ORDER \o <<"1", "0", "0", "1">>
  /\ resp.op = "add_order" /\ resp.http = 400 /\ resp.text = MSG_NO_STOCK

\* C6 as claimed: update_order answers NotFound only when no order id equals
\* the requested one up to letter case.
C6_Original ==
  (resp.op = "update_order" /\ resp.http = 404) =>
     \A i \in DOMAIN orders : upper(orders[i].order_id) # upper(strip(resp.a))

\* C6 as amended: the id is compared exactly (case included) after trimming;
\* the first order with that id gets the trimmed status, whatever the text;
\* with no such order the answer is 404 and orders is left as it was.
C6_ExactMatch ==
  [][ resp'.op = "update_order" =>
        LET oid  == strip(resp'.a)
            hits == {i \in DOMAIN orders : orders[i].order_id = oid}
        IN  IF hits = {}
              THEN resp'.http = 404 /\ resp'.status = "fail" /\ orders' = orders
              ELSE /\ resp'.http = 200 /\ resp'.status = "success"
                   /\ orders' = [orders EXCEPT ![MinOf(hits)].status = strip(resp'.b)] ]_vars

\* the second order was updated through an id and a status with surrounding
\* whitespace
C6_Witness ==
  /\ resp.op = "update_order" /\ resp.http = 200
  /\ resp.a = <<" ">> \o ORDER \o <<"1", "0", "0", "2", "\n">>
  /\ resp.b = <<" ">> \o ST_CANCELLED
  /\ Len(orders) = 2 /\ orders[2].status = ST_CANCELLED /\ orders[1].status = ST_CONFIRMED

\* C7 as claimed: only a successful add_order adds an order.
C7_Original ==
  [][ Len(orders') > Len(orders) => (resp'.op = "add_order" /\ resp'.status = "success") ]_vars

\* C7 as amended: orders grows only by one record at a time, stored by an
\* add_order that passed its checks (answered with success, or with an error
\* when the invoice failed afterwards), and the record starts as confirmed;
\* no order is dropped; every field but status of every order keeps its
\* value; a status changes only in update_order, in one order at most, and
\* update_order leaves the catalog alone.
C7_OrderLifecycle ==
  [][ /\ Len(orders') >= Len(orders)
      /\ \A i \in DOMAIN orders : [orders'[i] EXCEPT !.status = orders[i].status] = orders[i]
      /\ Len(orders') > Len(orders) =>
           /\ resp'.op = "add_order" /\ resp'.http \in {200, 500}
           /\ Len(orders') = Len(orders) + 1
           /\ orders'[Len(orders')].status = ST_CONFIRMED
      /\ (\E i \in DOMAIN orders : orders'[i].status # orders[i].status) =>
           resp'.op = "update_order"
      /\ resp'.op = "update_order" =>
           /\ products' = products
           /\ Len(orders') = Len(orders)
           /\ Cardinality({i \in DOMAIN orders : orders'[i] # orders[i]}) <= 1 ]_vars

\* an order stored by an add_order whose invoice failed, later cancelled,
\* next to an untouched one
C7_Witness ==
  /\ resp.op = "update_order" /\ resp.http = 200
  /\ Len(orders) = 2
  /\ orders[1].order_id \notin invoices /\ orders[1].status = ST_CANCELLED
  /\ orders[2].status = ST_CONFIRMED

\* C8: a non-empty message whose upper-cased text contains ORDER is answered
\* with the status of the first order whose id is the first whitespace-
\* delimited token starting with ORDER, or with the not-found message, and
\* never with the listing or a product card.
C8_OrderBranchFirst ==
  (resp.op = "chat" /\ contains(upper(strip(resp.a)), ORDER)) =>
     LET toks   == split(upper(strip(resp.a)))
         starts == {k \in DOMAIN toks : startswith(toks[k], ORDER)}
         tok    == IF starts = {} THEN <<>> ELSE toks[MinOf(starts)]
         hits   == {i \in DOMAIN orders : upper(orders[i].order_id) = tok}
     IN  /\ resp.text = IF hits = {} THEN MSG_ORDER_NOT_FOUND ELSE orders[MinOf(hits)].status
         /\ resp.text # listing_reply(products)
         /\ \A i \in DOMAIN products : resp.text # card_reply(products[i])

\* a message with a list word, a product name and the id of the second order,
\* sent after that order was cancelled
C8_Witness ==
  /\ resp.op = "chat"
  /\ resp.a = LIST_LATIN \o <<" ">> \o NAME_HP \o <<" ">> \o lower(ORDER \o <<"1", "0", "0", "2">>)
  /\ Len(orders) = 2 /\ orders[2].status = ST_CANCELLED
  /\ resp.text = ST_CANCELLED

(***************************************************************************)
(* Properties of interleaved add_order requests (SpecConc).                *)
(***************************************************************************)
Succeeded(t) == pc[t] = "done" /\ loc[t].http = 200

\* C3 as claimed: two requests for one product that read the same stock and
\* both succeed leave that stock negative.
C3_Original ==
  \A t1, t2 \in Threads :
    (t1 # t2 /\ Succeeded(t1) /\ Succeeded(t2)
       /\ loc[t1].prod = loc[t2].prod /\ loc[t1].stock = loc[t2].stock)
    => products[loc[t1].prod].stock < 0

\* C3 as amended: every request that passed the stock test read a stock above 0
\* and writes that value less one, so no interleaving takes a stock below 0;
\* what two requests that read the same value lose is a decrement: both
\* succeed on one unit.
C3_StockNeverNegative ==
  /\ \A i \in DOMAIN products : products[i].stock >= 0
  /\ \A t \in Threads :
       pc[t] \in {"decrement", "save_products", "make", "append", "save_orders", "invoice"}
         \/ Succeeded(t)
       => loc[t].stock > 0

\* two requests read stock 1 of the same product, both succeeded, and the
\* stock is 0 with two orders for it
C3_Witness ==
  \E t1, t2 \in Threads :
    /\ t1 # t2 /\ Succeeded(t1) /\ Succeeded(t2)
    /\ loc[t1].prod = loc[t2].prod /\ loc[t1].stock = 1 /\ loc[t2].stock = 1
    /\ products[loc[t1].prod].stock = 0
    /\ Cardinality({i \in DOMAIN orders : orders[i].product = loc[t1].name}) = 2

Stored(t) == pc[t] \in {"save_orders", "invoice"} \/ Succeeded(t) \/ (pc[t] = "done" /\ loc[t].http = 500)

\* C4: two requests that computed their ids from the same len(orders) and
\* both stored their record leave two records with one order_id in orders.
C4_DuplicateOrderId ==
  \A t1, t2 \in Threads :
    (t1 # t2 /\ Stored(t1) /\ Stored(t2) /\ loc[t1].n = loc[t2].n)
    => \E i, j \in DOMAIN orders :
         /\ i < j
         /\ orders[i].order_id = orders[j].order_id
         /\ orders[i].order_id = ORDER \o str(ORDER_BASE + loc[t1].n + 1)

\* both requests answered success with the same order id, stored twice
C4_Witness ==
  \E t1, t2 \in Threads :
    /\ t1 # t2 /\ Succeeded(t1) /\ Succeeded(t2)
    /\ loc[t1].rec.order_id = loc[t2].rec.order_id
    /\ Len(orders) = 2 /\ orders[1].order_id = orders[2].order_id
    /\ orders[1].product # orders[2].product

(***************************************************************************)
(* Properties of the chat log (SpecLog).                                   *)
(***************************************************************************)
\* C9 as claimed: every chat request, a blank one included, appends its
\* exchange and leaves min(previous length + 1, 400) entries.
C9_Original ==
  [][ resp'.op = "chat" =>
        /\ Len(history') = (IF Len(history) + 1 <= HISTORY_KEEP THEN Len(history) + 1 ELSE HISTORY_KEEP)
        /\ history'[Len(history')].msg = strip(resp'.a)
        /\ history'[Len(history')].bot = resp'.text ]_vars

\* C9 as amended: a chat request whose message is not blank after trimming
\* appends one entry (time, user, trimmed message, reply) and keeps the most
\* recent 400 entries, in order, in memory and in the file; a blank one gets
\* the fixed prompt and leaves the log as it was; no other request touches
\* the log.
C9_LogAppend ==
  [][ /\ (resp'.op = "chat" /\ strip(resp'.a) = <<>>) =>
           /\ resp'.text = MSG_WRITE_SOMETHING
           /\ history' = history /\ diskHistory' = diskHistory
      /\ (resp'.op = "chat" /\ strip(resp'.a) # <<>>) =>
           LET n    == Len(history')
               drop == Len(history) + 1 - n
           IN  /\ n = (IF Len(history) + 1 <= HISTORY_KEEP THEN Len(history) + 1 ELSE HISTORY_KEEP)
               /\ history'[n] = [time |-> isoformat(Clock[now]), user |-> GUEST,
                                 msg |-> strip(resp'.a), bot |-> resp'.text]
               /\ \A k \in 1..(n - 1) : history'[k] = history[k + drop]
               /\ diskHistory' = history'
      /\ resp'.op # "chat" => history' = history /\ diskHistory' = diskHistory ]_vars

\* a full log took one more exchange: its oldest entry is gone, the new one
\* is last
C9_Witness ==
  /\ resp.op = "chat" /\ resp.a = lower(NAME_HP)
  /\ Len(history) = HISTORY_KEEP
  /\ history[1].msg = <<"2">>
  /\ history[HISTORY_KEEP].msg = lower(NAME_HP)
  /\ history[HISTORY_KEEP].bot = card_reply(products[1])

(***************************************************************************)
(* Properties of reports (SpecRep).                                        *)
(***************************************************************************)
RECURSIVE SumTotals(_, _)
SumTotals(ords, S) ==
  IF S = {} THEN 0
  ELSE LET i == CHOOSE i \in S : TRUE IN ords[i].total + SumTotals(ords, S \ {i})

RECURSIVE SumSeq(_)
SumSeq(q) == IF q = <<>> THEN 0 ELSE Head(q) + SumSeq(Tail(q))

\* the orders whose timestamp starts with the first k characters of the date d
Dated(ords, d, k) == {i \in DOMAIN ords : startswith(timestamp(ords[i]), SubSeq(d, 1, k))}
FirstSeen(ords, cat) == MinOf({i \in DOMAIN ords : ords[i].category = cat})

\* C10: the year, month and today totals are the sums of total over the
\* orders whose timestamp starts with the 4, 7 and 10 character prefix of the
\* current date, so today <= month <= year; the labels are the categories in
\* first-seen order, each with the number of its orders, and the counts sum
\* to the number of orders; the request changes neither orders nor catalog.
C10_Report ==
  [][ resp'.op = "reports" =>
        LET r == resp'.report
            d == resp'.a
        IN  /\ d = isodate(Clock[now]) /\ Len(d) = 10
            /\ r.year  = SumTotals(orders, Dated(orders, d, 4))
            /\ r.month = SumTotals(orders, Dated(orders, d, 7))
            /\ r.today = SumTotals(orders, Dated(orders, d, 10))
            /\ r.today <= r.month /\ r.month <= r.year
            /\ Len(r.labels) = Len(r.counts)
            /\ {r.labels[k] : k \in DOMAIN r.labels} = {orders[i].category : i \in DOMAIN orders}
            /\ \A k, l \in DOMAIN r.labels :
                 k < l => FirstSeen(orders, r.labels[k]) < FirstSeen(orders, r.labels[l])
            /\ \A k \in DOMAIN r.labels :
                 r.counts[k] = Cardinality({i \in DOMAIN orders : orders[i].category = r.labels[k]})
            /\ SumSeq(r.counts) = Len(orders)
            /\ UNCHANGED <<products, orders, diskProducts, diskOrders>> ]_vars

\* a report over an order of today, one of another day of the month and one
\* of another month of the year, in two categories
C10_Witness ==
  /\ resp.op = "reports"
  /\ Len(orders) = 3
  /\ 0 < resp.report.today
  /\ resp.report.today < resp.report.month
  /\ resp.report.month < resp.report.year
  /\ resp.report.labels = <<CAT_MOBILE, CAT_LAPTOP>>
  /\ resp.report.counts = <<1, 2>>

(***************************************************************************)
(* Properties of the stored amounts (SpecPrice).                           *)
(***************************************************************************)
RECURSIVE Pow10(_)
Pow10(n) == IF n = 0 THEN 1 ELSE 10 * Pow10(n - 1)

RECURSIVE PlaceSum(_, _)
PlaceSum(ds, S) ==
  IF S = {} THEN 0
  ELSE LET i == CHOOSE i \in S : TRUE
       IN  DigitValue(ds[i]) * Pow10(Len(ds) - i) + PlaceSum(ds, S \ {i})

\* the number written by the digit characters of a text, read in order; 0 for none
DigitsNumber(text) ==
  LET ds == SelectSeq(text, LAMBDA c : c \in {"0", "1", "2", "3", "4", "5", "6", "7", "8", "9"})
  IN  PlaceSum(ds, DOMAIN ds)

\* C11: the record stored by a successful add_order has as unit_price the
\* number written by the digit characters of the product's price text (0
\* without a digit) and as total a non-negative integer nearest to
\* unit_price * 1.07 (at most one half away from it); 65000 gives 69550.
C11_Amounts ==
  [][ (resp'.op = "add_order" /\ resp'.status = "success") =>
        LET rec  == orders'[Len(orders')]
            hits == {i \in DOMAIN products : products[i].name = strip(resp'.a)}
            p    == products[MinOf(hits)]
            off  == 100 * rec.total - (100 + TAX_PCT) * rec.unit_price
        IN  /\ Len(orders') = Len(orders) + 1
            /\ rec.unit_price = DigitsNumber(p.price)
            /\ rec.total \in Nat
            /\ -50 <= off /\ off <= 50
            /\ rec.unit_price = 65000 => rec.total = 69550 ]_vars

\* the first purchase was priced 65000 and totals 69550, the second one was
\* priced 950, half-way between 1016 and 1017, and totals 1017
C11_Witness ==
  /\ resp.op = "add_order" /\ resp.status = "success"
  /\ Len(orders) = 2
  /\ orders[1].unit_price = 65000 /\ orders[1].total = 69550
  /\ orders[2].unit_price = 950 /\ orders[2].total = 1017

(***************************************************************************)
(* Stock against order records (Spec).                                     *)
(***************************************************************************)
\* the number of records in ords made for the product of that name
Made(ords, name) == Cardinality({k \in DOMAIN ords : ords[k].product = name})

\* C12: in every step the stock of each product drops by exactly the number
\* of order records the step adds for it, so that from the empty order store
\* (initial stock - current stock) is the number of records made for the
\* product; an add_order whose invoice fails answers with an error and no
\* order id, and its decrement and its record stay, in memory and on disk.
C12_StockConservation ==
  [][ /\ Len(products') = Len(products)
      /\ \A i \in DOMAIN products :
           /\ products'[i].name = products[i].name
           /\ products[i].stock - products'[i].stock
                = Made(orders', products[i].name) - Made(orders, products[i].name)
      /\ (resp'.op = "add_order" /\ resp'.http = 500) =>
           /\ resp'.text = <<>> /\ resp'.invoice = <<>>
           /\ Len(orders') = Len(orders) + 1
           /\ orders'[Len(orders')].order_id \notin invoices'
           /\ \E i \in DOMAIN products :
                /\ products[i].name = orders'[Len(orders')].product
                /\ products'[i].stock = products[i].stock - 1
           /\ diskProducts' = products' /\ diskOrders' = orders' ]_vars

\* the only unit of the first product went to a request that failed on its
\* invoice: stock 0, one record, no PDF, an error for the client
C12_Witness ==
  /\ resp.op = "add_order" /\ resp.http = 500
  /\ products[1].stock = 0 /\ diskProducts[1].stock = 0
  /\ Len(orders) = 1 /\ orders[1].product = products[1].name
  /\ diskOrders = orders
  /\ invoices = {}

(***************************************************************************)
(* The two files of a purchase (SpecCrash).                                *)
(***************************************************************************)
\* the stocks a catalog file started from: those of the first start, or the
\* default ones when it was written anew
Baseline(file) == IF Len(file) = Len(FirstCatalog) THEN FirstCatalog ELSE SeedCatalog

\* the decrements in a catalog file cover the records in an orders file
Covered(catalog, ords) ==
  \A i \in DOMAIN catalog :
    Baseline(catalog)[i].stock - catalog[i].stock >= Made(ords, catalog[i].name)

\* C13 as claimed: in every state, whatever the point the process died at,
\* the catalog file holds the decrement of every order in the orders file.
C13_Original ==
  (Readable(diskOrders) /\ diskOrders # <<>>) =>
     (Readable(diskProducts) /\ Covered(diskProducts, diskOrders))

\* C13 as amended: as long as the catalog file is the one the run started
\* with and can be read (no process died inside its rewrite), it holds the
\* decrement of every order in the orders file, at every statement of
\* add_order and after a death between the two writes; a request that got
\* through both writes leaves each file equal to its collection, and so does
\* every state between requests whose files can be read.
C13_PersistenceOrder ==
  /\ (Readable(diskProducts) /\ Len(diskProducts) = Len(FirstCatalog) /\ Readable(diskOrders)) =>
       Covered(diskProducts, diskOrders)
  /\ (pc[Worker] = "done" /\ loc[Worker].http \in {200, 500}) =>
       (diskProducts = products /\ diskOrders = orders)
  /\ (pc[Worker] \in {"idle", "done"} /\ Readable(diskProducts) /\ Readable(diskOrders)) =>
       (diskProducts = products /\ diskOrders = orders /\ diskHistory = history)

\* the process died between the two writes: the decrement is in the catalog
\* file and the orders file has no record
C13_Witness ==
  /\ pc[Worker] = "crashed"
  /\ Readable(diskProducts) /\ Readable(diskOrders)
  /\ diskProducts[1].stock = FirstCatalog[1].stock - 1
  /\ diskOrders = <<>>

====
